---- MODULE Spec2Model ----
(***************************************************************************)
(* The credential store of memory-safe-guard-v2: DatabaseManager           *)
(* (src/src/lib/db/db.ts), a wrapper around one IndexedDB object store     *)
(* keyed by the record's id.                                               *)
(*                                                                         *)
(* A record is a function from field names to values.  Strings are         *)
(* sequences of one-character strings, an ISO-8601 timestamp is the pair   *)
(* <<seconds, milliseconds>> of the instant it prints, and an identifier   *)
(* is the pair <<Date.now(), random suffix>> generateId concatenates.      *)
(***************************************************************************)
EXTENDS Integers, Sequences, FiniteSets, TLC

VARIABLES
    db,      \* DatabaseManager.db: the storage handle, Null until an open succeeds
    store,   \* the object store's content: key (the record's id) -> record
    clock,   \* the wall clock Date.now() and new Date() read, in milliseconds
    last,    \* the most recent call: its operation, input, outcome and resolved value
    calls,   \* the updatePassword calls in flight, one per caller: where each stands
    txns     \* the readwrite transactions on the table that are not finished,
             \* in the order they were created

vars == <<db, store, clock, last, calls, txns>>

(***************************************************************************)
(* Bounds of the model.                                                    *)
(***************************************************************************)
MaxClock == 1       \* the clock reads 0..MaxClock
MaxRecords == 2     \* the object store holds at most this many records

Suffixes == {1}     \* the random suffixes generateId may draw

Null == "null"
Open == "open"

(***************************************************************************)
(* Strings.                                                                *)
(***************************************************************************)
IsWhiteSpace(c) == c = " "

LowerChar(c) ==
    CASE c = "G" -> "g"
      [] c = "I" -> "i"
      [] OTHER -> c

\* String.prototype.toLowerCase
ToLowerCase(s) == [i \in 1..Len(s) |-> LowerChar(s[i])]

\* String.prototype.includes
Includes(s, t) ==
    \E i \in 0..(Len(s) - Len(t)) :
        \A j \in 1..Len(t) : s[i + j] = t[j]

RECURSIVE TrimStart(_)
TrimStart(s) ==
    IF s # <<>> /\ IsWhiteSpace(Head(s)) THEN TrimStart(Tail(s)) ELSE s

RECURSIVE TrimEnd(_)
TrimEnd(s) ==
    IF s # <<>> /\ IsWhiteSpace(s[Len(s)])
    THEN TrimEnd(SubSeq(s, 1, Len(s) - 1))
    ELSE s

\* No trimming: the string as it is
TrimNothing(s) == s

\* String.prototype.trim
Trim(s) == TrimEnd(TrimStart(s))

(***************************************************************************)
(* Timestamps and identifiers.                                             *)
(***************************************************************************)
\* Date.prototype.toISOString: the instant printed as seconds and milliseconds
ToISOString(ms) == <<ms \div 1000, ms % 1000>>

\* new Date(iso).getTime(): the printed instant parsed back to milliseconds
GetTime(iso) == iso[1] * 1000 + iso[2]

\* generateId: `pwd_${Date.now()}_${random suffix}`
GenerateId(now, rnd) == <<now, rnd>>

\* The order of IndexedDB keys (strings compared left to right)
KeyLess(a, b) == a[1] < b[1] \/ (a[1] = b[1] /\ a[2] < b[2])

Instants == 0..MaxClock
IdSpace == Instants \X Suffixes

(***************************************************************************)
(* Inputs.                                                                 *)
(***************************************************************************)
\* What callers pass to addPassword: a PasswordInsert, which at run time
\* may carry further fields (the spread copies whatever is there).
AddInputs ==
    { [service |-> <<"G", "i">>, username |-> <<"x">>, password |-> <<"p">>],
      [service |-> <<"a", "b">>, username |-> <<"g", " ">>, password |-> <<"p">>],
      [service |-> <<"G", "i">>, username |-> <<"x">>, password |-> <<"p">>,
       id |-> <<0, 1>>, createdAt |-> ToISOString(1)] }

\* What callers pass to updatePassword as `updates`
UpdateInputs ==
    { [service |-> <<"a", "b">>],
      [id |-> <<1, 1>>, createdAt |-> ToISOString(0),
       updatedAt |-> ToISOString(0)] }

Queries ==
    { <<>>, <<" ">>, <<"G", "I">>, <<"g", " ">> }

(***************************************************************************)
(* Objects and the object store.                                           *)
(***************************************************************************)
\* { ...a, ...b }
Spread(a, b) ==
    [f \in DOMAIN a \cup DOMAIN b |-> IF f \in DOMAIN b THEN b[f] ELSE a[f]]

EmptyStore == [k \in {} |-> <<>>]

\* IDBObjectStore.put with keyPath 'id': insert or overwrite under rec.id
StorePut(s, rec) ==
    [k \in DOMAIN s \cup {rec.id} |-> IF k = rec.id THEN rec ELSE s[k]]

\* IDBObjectStore.delete
StoreDelete(s, id) == [k \in DOMAIN s \ {id} |-> s[k]]

\* IDBObjectStore.getAll: every record, in ascending key order
RECURSIVE KeysInOrder(_)
KeysInOrder(ks) ==
    IF ks = {} THEN <<>>
    ELSE LET m == CHOOSE k \in ks : \A o \in ks \ {k} : KeyLess(k, o)
         IN <<m>> \o KeysInOrder(ks \ {m})

StoreGetAll(s) ==
    LET ks == KeysInOrder(DOMAIN s) IN [i \in 1..Len(ks) |-> s[ks[i]]]

(***************************************************************************)
(* Sorting by updatedAt, descending.                                       *)
(***************************************************************************)
\* new Date(x.updatedAt || 0).getTime()
UpdatedTime(r) ==
    IF "updatedAt" \in DOMAIN r THEN GetTime(r.updatedAt) ELSE 0

\* The comparator with its operands exchanged: ascending
CompareAscending(a, b) == UpdatedTime(a) - UpdatedTime(b)

\* The comparator (a, b) => time(b) - time(a)
Compare(a, b) == UpdatedTime(b) - UpdatedTime(a)

\* Array.prototype.sort is stable: x goes after every element it does not
\* sort strictly before.
RECURSIVE Insert(_, _)
Insert(sorted, x) ==
    IF sorted = <<>> THEN <<x>>
    ELSE IF Compare(Head(sorted), x) <= 0
         THEN <<Head(sorted)>> \o Insert(Tail(sorted), x)
         ELSE <<x>> \o sorted

RECURSIVE SortByUpdatedAt(_)
SortByUpdatedAt(rs) ==
    IF rs = <<>> THEN <<>>
    ELSE Insert(SortByUpdatedAt(SubSeq(rs, 1, Len(rs) - 1)), rs[Len(rs)])

(***************************************************************************)
(* The resolved values of the read operations.                             *)
(***************************************************************************)
\* getAllPasswords, request.onsuccess
AllPasswords(s) == SortByUpdatedAt(StoreGetAll(s))

\* The filter without lowering the stored fields: a case-sensitive match
MatchesCaseSensitive(password, query) ==
    LET searchTerm == ToLowerCase(query)
    IN \/ Includes(password.service, searchTerm)
       \/ Includes(password.username, searchTerm)

\* the filter of searchPasswords
Matches(password, query) ==
    LET searchTerm == ToLowerCase(query)
    IN \/ Includes(ToLowerCase(password.service), searchTerm)
       \/ Includes(ToLowerCase(password.username), searchTerm)

RECURSIVE Filter(_, _)
Filter(rs, query) ==
    IF rs = <<>> THEN <<>>
    ELSE IF Matches(Head(rs), query)
         THEN <<Head(rs)>> \o Filter(Tail(rs), query)
         ELSE Filter(Tail(rs), query)

\* searchPasswords on an open store
SearchResult(s, query) ==
    IF Trim(query) = <<>>
    THEN AllPasswords(s)
    ELSE SortByUpdatedAt(Filter(StoreGetAll(s), query))

\* getStats with hasPasswords off by one
StatsOfOffByOne(passwords) ==
    [total |-> Len(passwords), hasPasswords |-> Len(passwords) > 1]

\* getStats
StatsOf(passwords) ==
    [total |-> Len(passwords), hasPasswords |-> Len(passwords) > 0]

(***************************************************************************)
(* Opening the store.                                                      *)
(***************************************************************************)
\* The outcomes indexedDB.open may have when a call has to open the store
OpenOutcomes == IF db = Null THEN BOOLEAN ELSE {TRUE}

\* ensureInitialized that swallows a failed open and goes on
EnsureInitializedRegardless(openOk) ==
    IF db = Null THEN Open ELSE db

\* ensureInitialized: the handle afterwards.  initialize sets the handle in
\* onsuccess alone; onerror rejects and leaves it as it was.
EnsureInitialized(openOk) ==
    IF db = Null THEN (IF openOk THEN Open ELSE Null) ELSE db

\* The requests a call makes of the storage engine, in order: the open of
\* ensureInitialized when the handle is unset, then the transaction on the
\* table, which is reached only with a handle.
EngineRequests(openOk) ==
    (IF db = Null THEN <<"open">> ELSE <<>>)
    \o (IF EnsureInitialized(openOk) = Null THEN <<>> ELSE <<"transaction">>)

NoRecord == <<>>
IsRecord(r) == DOMAIN r # {}

\* IDBObjectStore.get: the record under the key, or nothing
StoreGet(s, id) == IF id \in DOMAIN s THEN s[id] ELSE NoRecord

\* What is known of a call once it has settled: the operation, its input, the
\* record stored under the addressed id when it began, the requests it made
\* of the engine, how it settled and the value it resolved with.
Call(op, arg, prior, engine, outcome, result) ==
    [op |-> op, arg |-> arg, prior |-> prior, engine |-> engine,
     outcome |-> outcome, result |-> result]

NoCall == Call("none", <<>>, NoRecord, <<>>, "ok", <<>>)

\* The callers that may have an updatePassword call in flight at once
Callers == {1, 2}

\* A caller with no call in flight
Idle ==
    [pc |-> "idle", id |-> <<>>, updates |-> <<>>, existing |-> NoRecord,
     result |-> NoRecord, outcome |-> "none", waited |-> FALSE, rank |-> 0]

\* A call whose ensureInitialized rejected: `await` rethrows, nothing else runs
InitFailed(op, arg, openOk) ==
    /\ db' = EnsureInitialized(openOk)
    /\ store' = store
    /\ last' = Call(op, arg, NoRecord, EngineRequests(openOk),
                    "InitializationError", <<>>)

Init ==
    /\ db = Null
    /\ store = EmptyStore
    /\ clock = 0
    /\ last = NoCall
    /\ calls = [p \in Callers |-> Idle]
    /\ txns = <<>>

(***************************************************************************)
(* The operations.                                                         *)
(***************************************************************************)
Initialize(openOk) ==
    /\ db' = IF openOk THEN Open ELSE db
    /\ store' = store
    /\ last' = Call("initialize", <<>>, NoRecord, <<"open">>,
                    IF openOk THEN "ok" ELSE "InitializationError", <<>>)
    /\ UNCHANGED <<clock, calls, txns>>

GetAllPasswords(openOk) ==
    /\ IF EnsureInitialized(openOk) = Null
       THEN InitFailed("listAll", <<>>, openOk)
       ELSE /\ db' = EnsureInitialized(openOk)
            /\ store' = store
            /\ last' = Call("listAll", <<>>, NoRecord, EngineRequests(openOk),
                            "ok", AllPasswords(store))
    /\ UNCHANGED <<clock, calls, txns>>

SearchPasswords(query, openOk) ==
    /\ IF EnsureInitialized(openOk) = Null
       THEN InitFailed("search", query, openOk)
       ELSE /\ db' = EnsureInitialized(openOk)
            /\ store' = store
            /\ last' = Call("search", query, NoRecord, EngineRequests(openOk),
                            "ok", SearchResult(store, query))
    /\ UNCHANGED <<clock, calls, txns>>

\* The object addPassword would build with the caller's data spread last
NewPasswordDataLast(passwordData, now, rnd) ==
    Spread([id |-> GenerateId(now, rnd),
            createdAt |-> ToISOString(now), updatedAt |-> ToISOString(now)],
           passwordData)

\* The object addPassword builds
NewPassword(passwordData, now, rnd) ==
    Spread(Spread([id |-> GenerateId(now, rnd)], passwordData),
           [createdAt |-> ToISOString(now), updatedAt |-> ToISOString(now)])

AddPassword(passwordData, rnd, openOk) ==
    LET newPassword == NewPassword(passwordData, clock, rnd)
    IN /\ Cardinality(DOMAIN store) < MaxRecords
       /\ IF EnsureInitialized(openOk) = Null
          THEN InitFailed("add", passwordData, openOk)
          ELSE /\ db' = EnsureInitialized(openOk)
               /\ IF newPassword.id \in DOMAIN store
                  THEN \* store.add rejects a key that is taken
                       /\ store' = store
                       /\ last' = Call("add", passwordData,
                                       StoreGet(store, newPassword.id),
                                       EngineRequests(openOk), "WriteError", <<>>)
                  ELSE /\ store' = StorePut(store, newPassword)
                       /\ last' = Call("add", passwordData, NoRecord,
                                       EngineRequests(openOk), "ok", newPassword)
       /\ UNCHANGED <<clock, calls, txns>>

\* The object updatePassword would build without refreshing updatedAt
UpdatedPasswordStale(existingPassword, updates, now) ==
    Spread(existingPassword, updates)

\* The object updatePassword builds
UpdatedPassword(existingPassword, updates, now) ==
    Spread(Spread(existingPassword, updates), [updatedAt |-> ToISOString(now)])

\* updatePassword without the check of what get returned: a missing record
\* is written as a new one
UpdatePasswordUpsert(id, updates, openOk) ==
    /\ IF EnsureInitialized(openOk) = Null
       THEN InitFailed("update", <<id, updates>>, openOk)
       ELSE /\ db' = EnsureInitialized(openOk)
            /\ LET existingPassword ==
                       IF id \in DOMAIN store THEN store[id] ELSE [id |-> id]
                   updatedPassword ==
                       UpdatedPasswordStale(existingPassword, updates, clock)
               IN /\ Cardinality(DOMAIN store \cup {updatedPassword.id})
                         <= MaxRecords
                  /\ store' = StorePut(store, updatedPassword)
                  /\ last' = Call("update", <<id, updates>>,
                                  StoreGet(store, id), EngineRequests(openOk),
                                  "ok", updatedPassword)
    /\ UNCHANGED <<clock, calls, txns>>

UpdatePassword(id, updates, openOk) ==
    /\ IF EnsureInitialized(openOk) = Null
       THEN InitFailed("update", <<id, updates>>, openOk)
       ELSE /\ db' = EnsureInitialized(openOk)
            /\ LET existingPassword == StoreGet(store, id)
               IN IF ~IsRecord(existingPassword)
                  THEN /\ store' = store
                       /\ last' = Call("update", <<id, updates>>, NoRecord,
                                       EngineRequests(openOk), "NotFoundError", <<>>)
                  ELSE LET updatedPassword ==
                               UpdatedPassword(existingPassword, updates, clock)
                       IN /\ Cardinality(DOMAIN store \cup {updatedPassword.id})
                                 <= MaxRecords
                          /\ store' = StorePut(store, updatedPassword)
                          /\ last' = Call("update", <<id, updates>>,
                                          existingPassword, EngineRequests(openOk),
                                          "ok", updatedPassword)
    /\ UNCHANGED <<clock, calls, txns>>

\* deletePassword clearing the table instead of deleting one key
DeletePasswordAll(id, openOk) ==
    /\ IF EnsureInitialized(openOk) = Null
       THEN InitFailed("delete", id, openOk)
       ELSE /\ db' = EnsureInitialized(openOk)
            /\ store' = IF id \in DOMAIN store THEN EmptyStore ELSE store
            /\ last' = Call("delete", id, StoreGet(store, id),
                            EngineRequests(openOk), "ok", <<>>)
    /\ UNCHANGED <<clock, calls, txns>>

DeletePassword(id, openOk) ==
    /\ IF EnsureInitialized(openOk) = Null
       THEN InitFailed("delete", id, openOk)
       ELSE /\ db' = EnsureInitialized(openOk)
            /\ store' = StoreDelete(store, id)
            /\ last' = Call("delete", id, StoreGet(store, id),
                            EngineRequests(openOk), "ok", <<>>)
    /\ UNCHANGED <<clock, calls, txns>>

GetStats(openOk) ==
    /\ IF EnsureInitialized(openOk) = Null
       THEN InitFailed("stats", <<>>, openOk)
       ELSE /\ db' = EnsureInitialized(openOk)
            /\ store' = store
            /\ last' = Call("stats", <<>>, NoRecord, EngineRequests(openOk),
                            "ok", StatsOf(AllPasswords(store)))
    /\ UNCHANGED <<clock, calls, txns>>

ClearAll(openOk) ==
    /\ IF EnsureInitialized(openOk) = Null
       THEN InitFailed("clearAll", <<>>, openOk)
       ELSE /\ db' = EnsureInitialized(openOk)
            /\ store' = EmptyStore
            /\ last' = Call("clearAll", <<>>, NoRecord, EngineRequests(openOk),
                            "ok", <<>>)
    /\ UNCHANGED <<clock, calls, txns>>

\* Time passes
Tick ==
    /\ clock < MaxClock
    /\ clock' = clock + 1
    /\ UNCHANGED <<db, store, last, calls, txns>>

\* The page is loaded again: a new DatabaseManager whose handle is unset,
\* over the object store the browser kept.
Reload ==
    /\ db' = Null
    /\ last' = NoCall
    /\ UNCHANGED <<store, clock, calls, txns>>

Next ==
    \/ \E openOk \in BOOLEAN : Initialize(openOk)
    \/ \E openOk \in OpenOutcomes : GetAllPasswords(openOk)
    \/ \E q \in Queries, openOk \in OpenOutcomes : SearchPasswords(q, openOk)
    \/ \E d \in AddInputs, rnd \in Suffixes, openOk \in OpenOutcomes :
           AddPassword(d, rnd, openOk)
    \/ \E id \in IdSpace, u \in UpdateInputs, openOk \in OpenOutcomes :
           UpdatePassword(id, u, openOk)
    \/ \E id \in IdSpace, openOk \in OpenOutcomes : DeletePassword(id, openOk)
    \/ \E openOk \in OpenOutcomes : GetStats(openOk)
    \/ \E openOk \in OpenOutcomes : ClearAll(openOk)
    \/ Tick
    \/ Reload

Spec == Init /\ [][Next]_vars

(***************************************************************************)
(* What the properties speak of.                                           *)
(***************************************************************************)
\* The timestamp a is strictly later than b (ISO-8601 order, not via getTime)
IsoLater(a, b) == a[1] > b[1] \/ (a[1] = b[1] /\ a[2] > b[2])

\* The sequence holds the record r
Holds(seq, r) == \E i \in 1..Len(seq) : seq[i] = r

\* Every record of s other than those under the keys ks is in t, unchanged
SameExcept(s, t, ks) ==
    \A k \in DOMAIN s \ ks : k \in DOMAIN t /\ t[k] = s[k]

(***************************************************************************)
(* C1: a successful add(data) stores exactly one new record, whose         *)
(* createdAt equals its updatedAt, returns that same record, a following   *)
(* listAll() includes it, and every record stored before is still there,   *)
(* unchanged.                                                              *)
(***************************************************************************)
AddStoresOneNewRecord ==
    [][ \A rnd \in Suffixes, openOk \in BOOLEAN :
          (/\ last'.op = "add"
           /\ last'.outcome = "ok"
           /\ AddPassword(last'.arg, rnd, openOk)) =>
              LET d == last'.arg
                  r == last'.result
              IN /\ r.id \notin DOMAIN store
                 /\ DOMAIN store' = DOMAIN store \cup {r.id}
                 /\ store'[r.id] = r
                 /\ r.createdAt = r.updatedAt
                 /\ \A f \in DOMAIN d \ {"id", "createdAt", "updatedAt"} :
                        r[f] = d[f]
                 /\ Holds(AllPasswords(store'), r)
                 /\ SameExcept(store, store', {}) ]_vars

\* An add has succeeded beside a record stored before, with data that
\* itself carries an id and a createdAt.
AddWitness ==
    /\ last.op = "add"
    /\ last.outcome = "ok"
    /\ "createdAt" \in DOMAIN last.arg
    /\ Cardinality(DOMAIN store) = 2

(***************************************************************************)
(* C2, as the specification states it: for every stored id,                *)
(* update(id, {field: v}) followed by listAll() shows the record with      *)
(* field = v and a last-modified timestamp strictly later than the one it  *)
(* had before, also when the update happens at the clock reading of the    *)
(* add or of the previous update.  (field is a field of PasswordInsert.)   *)
(***************************************************************************)
DataFields == {"service", "username", "password"}

\* The record with identifier id that listAll() of s shows, if any
Shown(s, id) ==
    LET all == AllPasswords(s)
    IN IF \E i \in 1..Len(all) : all[i].id = id
       THEN all[CHOOSE i \in 1..Len(all) : all[i].id = id]
       ELSE NoRecord

UpdateStrictlyLater ==
    [][ \A openOk \in BOOLEAN :
          (/\ last'.op = "update"
           /\ last'.outcome = "ok"
           /\ UpdatePassword(last'.arg[1], last'.arg[2], openOk)
           /\ last'.arg[1] \in DOMAIN store
           /\ DOMAIN last'.arg[2] \subseteq DataFields) =>
              LET id == last'.arg[1]
                  u == last'.arg[2]
                  shown == Shown(store', id)
              IN /\ IsRecord(shown)
                 /\ \A f \in DOMAIN u : shown[f] = u[f]
                 /\ IsoLater(shown.updatedAt, store[id].updatedAt) ]_vars

(***************************************************************************)
(* C2, amended: for every stored id, update(id, {field: v}) followed by    *)
(* listAll() shows the record with field = v and a last-modified timestamp *)
(* that is the clock reading of the update: never earlier than the one it  *)
(* had before, strictly later exactly when the clock has advanced past     *)
(* that one, and equal to it when the update happens at the same reading.  *)
(***************************************************************************)
UpdateStampsClock ==
    [][ \A openOk \in BOOLEAN :
          (/\ last'.op = "update"
           /\ last'.outcome = "ok"
           /\ UpdatePassword(last'.arg[1], last'.arg[2], openOk)
           /\ last'.arg[1] \in DOMAIN store
           /\ DOMAIN last'.arg[2] \subseteq DataFields) =>
              LET id == last'.arg[1]
                  u == last'.arg[2]
                  shown == Shown(store', id)
                  before == store[id].updatedAt
              IN /\ IsRecord(shown)
                 /\ \A f \in DOMAIN u : shown[f] = u[f]
                 /\ shown.updatedAt = <<clock \div 1000, clock % 1000>>
                 /\ ~IsoLater(before, shown.updatedAt)
                 /\ IsoLater(shown.updatedAt, before)
                        <=> (clock > before[1] * 1000 + before[2]) ]_vars

\* An update of a data field has succeeded at the clock reading of the
\* record's previous last-modified timestamp, which therefore did not move.
UpdateSameReadingWitness ==
    /\ last.op = "update"
    /\ last.outcome = "ok"
    /\ DOMAIN last.arg[2] \subseteq DataFields
    /\ last.result.service # last.prior.service
    /\ last.result.updatedAt = last.prior.updatedAt

(***************************************************************************)
(* C3: update(id, partialData) on an id that is not in the store fails     *)
(* with a not-found error, creates no record and leaves every stored       *)
(* record unchanged.                                                       *)
(***************************************************************************)
UpdateMissingIsNotFound ==
    [][ \A openOk \in BOOLEAN :
          (/\ last'.op = "update"
           /\ last'.outcome # "InitializationError"
           /\ UpdatePassword(last'.arg[1], last'.arg[2], openOk)
           /\ last'.arg[1] \notin DOMAIN store) =>
              /\ last'.outcome = "NotFoundError"
              /\ DOMAIN store' = DOMAIN store
              /\ SameExcept(store, store', {}) ]_vars

\* An update of an absent id was rejected while other records were stored.
UpdateMissingWitness ==
    /\ last.op = "update"
    /\ last.outcome = "NotFoundError"
    /\ last.arg[1] \notin DOMAIN store
    /\ store # EmptyStore

(***************************************************************************)
(* C4: after delete(id) the store holds no record with that id and every   *)
(* other record is unchanged; delete(id) on an absent id (a second delete  *)
(* of the same id included) succeeds without error and leaves the store    *)
(* unchanged.                                                              *)
(***************************************************************************)
DeleteRemovesOnlyThatId ==
    [][ \A openOk \in BOOLEAN :
          (/\ last'.op = "delete"
           /\ last'.outcome # "InitializationError"
           /\ DeletePassword(last'.arg, openOk)) =>
              LET id == last'.arg
              IN
              /\ last'.outcome = "ok"
              /\ id \notin DOMAIN store'
              /\ DOMAIN store' = DOMAIN store \ {id}
              /\ SameExcept(store, store', {id})
              /\ (id \notin DOMAIN store => store' = store) ]_vars

\* A delete of an id that was not stored has succeeded, other records
\* being stored.
DeleteAbsentWitness ==
    /\ last.op = "delete"
    /\ last.outcome = "ok"
    /\ ~IsRecord(last.prior)
    /\ store # EmptyStore

(***************************************************************************)
(* C9: the identifier of a record is immutable after creation: for every   *)
(* update payload (one that itself carries an id or a createdAt included)  *)
(* a successful update(id, partialData) leaves the set of stored           *)
(* identifiers unchanged, writes the result under the same id and keeps    *)
(* the record's creation timestamp; only the merged fields and the         *)
(* last-modified timestamp differ from the prior record.                   *)
(***************************************************************************)
UpdateKeepsIdentity ==
    [][ \A openOk \in BOOLEAN :
          (/\ last'.op = "update"
           /\ last'.outcome = "ok"
           /\ UpdatePassword(last'.arg[1], last'.arg[2], openOk)) =>
              LET id == last'.arg[1]
              IN
              /\ DOMAIN store' = DOMAIN store
              /\ last'.result.id = id
              /\ store'[id] = last'.result
              /\ store'[id].createdAt = store[id].createdAt
              /\ \A f \in DOMAIN store[id] \ (DataFields \cup {"updatedAt"}) :
                     store'[id][f] = store[id][f]
              /\ SameExcept(store, store', {id}) ]_vars

(***************************************************************************)
(* Lists of records.                                                       *)
(***************************************************************************)
\* No record of the list precedes one with a later last-modified timestamp
NewestFirst(seq) ==
    \A i, j \in 1..Len(seq) :
        i < j => ~IsoLater(seq[j].updatedAt, seq[i].updatedAt)

\* The list holds every record of s that satisfies Keep(_) exactly once
\* and nothing else
ExactlyThose(seq, s, Keep(_)) ==
    /\ \A k \in DOMAIN s :
           Cardinality({i \in 1..Len(seq) : seq[i] = s[k]})
               = IF Keep(s[k]) THEN 1 ELSE 0
    /\ \A i \in 1..Len(seq) : \E k \in DOMAIN s : seq[i] = s[k]

\* Two characters that differ at most in case
SameLetter(c, d) ==
    \/ c = d
    \/ {c, d} = {"G", "g"}
    \/ {c, d} = {"I", "i"}

\* q occurs in text as a substring, case ignored
ContainsIgnoringCase(text, q) ==
    \E from \in 1..(Len(text) - Len(q) + 1) :
        \A j \in 1..Len(q) : SameLetter(text[from + j - 1], q[j])

\* The string has a character that is not white space
NotBlank(q) == \E i \in 1..Len(q) : q[i] # " "

(***************************************************************************)
(* C5: for every query q that is not empty after trimming, search(q)       *)
(* returns exactly the stored records whose service or username contains q *)
(* as a case-insensitive substring, ordered by last-modified timestamp     *)
(* descending.                                                             *)
(***************************************************************************)
SearchReturnsExactlyMatches ==
    (last.op = "search" /\ last.outcome = "ok" /\ NotBlank(last.arg)) =>
        LET Wanted(r) == \/ ContainsIgnoringCase(r.service, last.arg)
                         \/ ContainsIgnoringCase(r.username, last.arg)
        IN /\ ExactlyThose(last.result, store, Wanted)
           /\ NewestFirst(last.result)

\* A search in another case than the stored service returned one of two
\* stored records and left the other out.
SearchWitness ==
    /\ last.op = "search"
    /\ last.outcome = "ok"
    /\ last.arg = <<"G", "I">>
    /\ Len(last.result) = 1
    /\ Cardinality(DOMAIN store) = 2

(***************************************************************************)
(* C6: search(q) with q empty or white space only returns the same         *)
(* records in the same order as listAll().                                 *)
(***************************************************************************)
BlankSearchIsListAll ==
    (last.op = "search" /\ last.outcome = "ok" /\ ~NotBlank(last.arg)) =>
        last.result = AllPasswords(store)

\* A search for a single space returned two records, one of which has no
\* space in its service or username.
BlankSearchWitness ==
    /\ last.op = "search"
    /\ last.outcome = "ok"
    /\ last.arg = <<" ">>
    /\ Len(last.result) = 2
    /\ \E i \in 1..2 : /\ ~ContainsIgnoringCase(last.result[i].service, <<" ">>)
                       /\ ~ContainsIgnoringCase(last.result[i].username, <<" ">>)

(***************************************************************************)
(* C7: after any sequence of add, update, delete and clearAll, listAll()   *)
(* returns every stored record exactly once, no record preceding one with  *)
(* a later last-modified timestamp; on an empty store it returns an empty  *)
(* result, not an error; and listAll() does not change the store.          *)
(***************************************************************************)
ListAllIsCompleteAndOrdered ==
    [][ \A openOk \in BOOLEAN :
          (/\ last'.op = "listAll"
           /\ last'.outcome # "InitializationError"
           /\ GetAllPasswords(openOk)) =>
              LET Stored(r) == TRUE
              IN /\ last'.outcome = "ok"
                 /\ store' = store
                 /\ ExactlyThose(last'.result, store, Stored)
                 /\ Len(last'.result) = Cardinality(DOMAIN store)
                 /\ NewestFirst(last'.result)
                 /\ (store = EmptyStore => last'.result = <<>>) ]_vars

\* listAll() returned two records, the one with the greater key first
\* because it was modified later.
ListAllWitness ==
    /\ last.op = "listAll"
    /\ last.outcome = "ok"
    /\ Len(last.result) = 2
    /\ KeyLess(last.result[2].id, last.result[1].id)
    /\ IsoLater(last.result[1].updatedAt, last.result[2].updatedAt)

(***************************************************************************)
(* C8: stats() reports total equal to the number of records stored and     *)
(* hasPasswords true exactly when total > 0; after clearAll() total is 0,  *)
(* hasPasswords is false and listAll() is empty.                           *)
(***************************************************************************)
StatsCountStoredRecords ==
    /\ (last.op = "stats" /\ last.outcome = "ok") =>
           /\ last.result.total = Cardinality(DOMAIN store)
           /\ last.result.hasPasswords <=> (last.result.total > 0)
    /\ (last.op = "clearAll" /\ last.outcome = "ok") =>
           /\ DOMAIN store = {}
           /\ AllPasswords(store) = <<>>
           /\ StatsOf(AllPasswords(store)) = [total |-> 0, hasPasswords |-> FALSE]

\* stats() reported one record, after a delete took one of two away.
StatsWitness ==
    /\ last.op = "stats"
    /\ last.outcome = "ok"
    /\ last.result.total = 1
    /\ last.result.hasPasswords

(***************************************************************************)
(* C10: every operation invoked while the storage handle is unset opens    *)
(* the store first and touches the table only after the open has           *)
(* succeeded; if the open fails the operation is rejected with an          *)
(* initialization error, the handle stays unset, the stored records are    *)
(* unchanged, and a later operation attempts the open again; initialize()  *)
(* on a store that is already open leaves the stored records unchanged.    *)
(***************************************************************************)
\* A step of one of the operations on the table, on the input the call
\* was made with
OperationStep(openOk) ==
    \/ last'.op = "listAll" /\ GetAllPasswords(openOk)
    \/ last'.op = "search" /\ SearchPasswords(last'.arg, openOk)
    \/ last'.op = "add" /\ \E rnd \in Suffixes : AddPassword(last'.arg, rnd, openOk)
    \/ last'.op = "update" /\ UpdatePassword(last'.arg[1], last'.arg[2], openOk)
    \/ last'.op = "delete" /\ DeletePassword(last'.arg, openOk)
    \/ last'.op = "stats" /\ GetStats(openOk)
    \/ last'.op = "clearAll" /\ ClearAll(openOk)

OpensBeforeTouchingTable ==
    [][ \A openOk \in BOOLEAN :
          /\ (OperationStep(openOk) /\ db = Null) =>
                 /\ Head(last'.engine) = "open"
                 /\ IF openOk
                    THEN /\ db' = Open
                         /\ last'.engine = <<"open", "transaction">>
                         /\ last'.outcome # "InitializationError"
                    ELSE /\ db' = Null
                         /\ store' = store
                         /\ last'.engine = <<"open">>
                         /\ last'.outcome = "InitializationError"
          /\ (OperationStep(openOk) /\ db # Null) =>
                 /\ db' = db
                 /\ last'.engine = <<"transaction">>
          /\ (last'.op = "initialize" /\ Initialize(openOk) /\ db # Null) =>
                 /\ store' = store
                 /\ db' # Null ]_vars

\* An update was rejected because the store could not be opened, with
\* records in the store and the handle still unset.
OpenFailedWitness ==
    /\ last.op = "update"
    /\ last.outcome = "InitializationError"
    /\ db = Null
    /\ store # EmptyStore

(***************************************************************************)
(* updatePassword step by step.  A call suspends at `await                 *)
(* ensureInitialized()`, then creates its readwrite transaction and the    *)
(* get request; the put is requested in the get's onsuccess, so both run   *)
(* in that one transaction.  Calls of other callers run while it waits.    *)
(***************************************************************************)
\* What callers pass as `updates` when two calls address one record
ConcurrentInputs ==
    { [service |-> <<"a", "b">>],
      [service |-> <<"G", "i">>, username |-> <<"g", " ">>],
      [username |-> <<"x">>] }

\* Transactions whose requests may run at any time, whatever is unfinished
\* before them
TransactionActiveUnordered(p) == \E i \in 1..Len(txns) : txns[i] = p

\* this.db.transaction([storeName], 'readwrite'): readwrite transactions on
\* one object store run one at a time, in the order they were created; the
\* requests of a transaction are served once every earlier one has finished.
TransactionActive(p) == txns # <<>> /\ Head(txns) = p

\* The transaction of p has no request left and finishes
TransactionsWithout(p) == SelectSeq(txns, LAMBDA q : q # p)

\* updatePassword(id, updates) is called: ensureInitialized starts an open
\* when the handle is unset, and the call suspends at the await either way.
UpdateCalled(p, id, updates) ==
    /\ calls[p].pc = "idle"
    /\ calls' = [calls EXCEPT ![p] =
                    [Idle EXCEPT !.pc = IF db = Null THEN "opening" ELSE "ready",
                                 !.id = id, !.updates = updates]]
    /\ UNCHANGED <<db, store, clock, last, txns>>

\* The open of initialize settles: onsuccess sets the handle, onerror rejects
UpdateOpened(p, openOk) ==
    /\ calls[p].pc = "opening"
    /\ db' = IF openOk THEN Open ELSE db
    /\ calls' = [calls EXCEPT ![p] =
                    IF openOk
                    THEN [@ EXCEPT !.pc = "ready"]
                    ELSE [@ EXCEPT !.pc = "done",
                                   !.outcome = "InitializationError"]]
    /\ UNCHANGED <<store, clock, last, txns>>

\* The await resumes: the transaction is created and get(id) is requested
UpdateBegun(p) ==
    /\ calls[p].pc = "ready"
    /\ txns' = Append(txns, p)
    /\ calls' = [calls EXCEPT ![p] =
                    [@ EXCEPT !.pc = "get", !.waited = txns # <<>>]]
    /\ UNCHANGED <<db, store, clock, last>>

\* getRequest.onsuccess: reject when nothing is stored under id, else build
\* the merged object and request put
UpdateGot(p) ==
    /\ calls[p].pc = "get"
    /\ TransactionActive(p)
    /\ LET existingPassword == StoreGet(store, calls[p].id)
       IN IF ~IsRecord(existingPassword)
          THEN /\ calls' = [calls EXCEPT ![p] =
                               [@ EXCEPT !.pc = "done",
                                         !.outcome = "NotFoundError"]]
               /\ txns' = TransactionsWithout(p)
          ELSE /\ calls' = [calls EXCEPT ![p] =
                               [@ EXCEPT !.pc = "put",
                                         !.existing = existingPassword,
                                         !.result = UpdatedPassword(
                                             existingPassword,
                                             calls[p].updates, clock)]]
               /\ txns' = txns
    /\ UNCHANGED <<db, store, clock, last>>

\* The put is applied, putRequest.onsuccess resolves the call and the
\* transaction finishes
UpdatePut(p) ==
    /\ calls[p].pc = "put"
    /\ TransactionActive(p)
    /\ store' = StorePut(store, calls[p].result)
    /\ calls' = [calls EXCEPT ![p] =
                    [@ EXCEPT !.pc = "done", !.outcome = "ok",
                              !.rank = 1 + Cardinality(
                                  {q \in Callers : calls[q].rank > 0})]]
    /\ txns' = TransactionsWithout(p)
    /\ UNCHANGED <<db, clock, last>>

\* Every call has settled and the callers are free to call again
UpdatesSettled ==
    /\ \A p \in Callers : calls[p].pc = "done"
    /\ calls' = [p \in Callers |-> Idle]
    /\ UNCHANGED <<db, store, clock, last, txns>>

\* The page has been loaded over a store that holds one record, added in an
\* earlier session; no call is in flight.
InitConcurrent ==
    /\ db = Null
    /\ \E d \in AddInputs, rnd \in Suffixes :
           store = StorePut(EmptyStore, NewPassword(d, 0, rnd))
    /\ clock = 0
    /\ last = NoCall
    /\ calls = [p \in Callers |-> Idle]
    /\ txns = <<>>

NextConcurrent ==
    \/ \E p \in Callers, id \in IdSpace, u \in ConcurrentInputs :
           UpdateCalled(p, id, u)
    \/ \E p \in Callers, openOk \in BOOLEAN : UpdateOpened(p, openOk)
    \/ \E p \in Callers : UpdateBegun(p)
    \/ \E p \in Callers : UpdateGot(p)
    \/ \E p \in Callers : UpdatePut(p)
    \/ UpdatesSettled
    \/ Tick

SpecConcurrent == InitConcurrent /\ [][NextConcurrent]_vars

(***************************************************************************)
(* C11: in every interleaving of two concurrent updates of the same        *)
(* existing id, exactly one record with that id exists afterwards, a field *)
(* set by both updates holds the value of the update whose write was       *)
(* applied last, and a field set by only one of them keeps that update's   *)
(* value: the later update merges over the earlier one's result, not over  *)
(* a stale read.                                                           *)
(***************************************************************************)
\* Both calls have resolved, on the same id
BothUpdated(p, q) ==
    /\ p # q
    /\ calls[p].outcome = "ok"
    /\ calls[q].outcome = "ok"
    /\ calls[p].id = calls[q].id

ConcurrentUpdatesMerge ==
    \A p, q \in Callers :
        (BothUpdated(p, q) /\ calls[p].rank < calls[q].rank) =>
            LET id == calls[p].id
                first == calls[p].updates
                second == calls[q].updates
            IN /\ Cardinality({k \in DOMAIN store : store[k].id = id}) = 1
               /\ id \in DOMAIN store
               /\ \A f \in DOMAIN second : store[id][f] = second[f]
               /\ \A f \in DOMAIN first \ DOMAIN second :
                      store[id][f] = first[f]
               /\ \A f \in DOMAIN store[id]
                          \ (DOMAIN first \cup DOMAIN second \cup {"updatedAt"}) :
                      store[id][f] = calls[p].existing[f]

\* Two updates of one record have resolved, the second one created while
\* the first one's transaction was unfinished; they set one field both, to
\* different values, and the first sets a field the second does not.
ConcurrentUpdatesWitness ==
    \E p, q \in Callers :
        /\ BothUpdated(p, q)
        /\ calls[p].rank < calls[q].rank
        /\ calls[q].waited
        /\ calls[p].updates = [service |-> <<"G", "i">>, username |-> <<"g", " ">>]
        /\ calls[q].updates = [service |-> <<"a", "b">>]
        /\ calls[p].existing.username # <<"g", " ">>

====
